---------------------------- MODULE Spec2Model ----------------------------
(***************************************************************************)
(* Model of the robotics tutor backend: the textbook content extractor     *)
(* (src/parser.py, parse_textbook_content) and the chat endpoint with its  *)
(* session history (src/server.py).                                        *)
(*                                                                         *)
(* A text is a sequence of atoms.  An atom is one character ("2", ".",     *)
(* " ", "\n", "$", "/", a letter) or one fixed literal of the source that  *)
(* no operation of the program looks inside ("Chapter: ", "No Source").    *)
(*                                                                         *)
(* The markup tree BeautifulSoup builds is a sequence of nodes in document *)
(* order (preorder); a node's depth tells its parent: the subtree of node  *)
(* i is the maximal run of nodes after i that are deeper than i.  The soup *)
(* object itself is the implicit root at depth 0.  Every node carries the  *)
(* identity (id) it was given when the tree was built, so that a snapshot  *)
(* list returned by find_all still names its nodes after the tree changed. *)
(***************************************************************************)
EXTENDS Integers, Sequences, FiniteSets, TLC

VARIABLES
    html_content,   \* the input of the current extraction: a tree, or Unparsable
    pc,             \* position inside parse_textbook_content
    soup,           \* the working tree
    location,       \* [found, node, text, chapter_info, section_info]
    figures,        \* list of figure records (fig is the container's identity)
    content_blocks, \* list of content blocks (node is the emitting element)
    result,         \* the returned document (a text), once pc = "done"
    SESSIONS,       \* server.py: session id -> list of <<role, message>>
    last_request,   \* the request chat_endpoint handled last
    last_response,  \* what it answered
    backend_calls,  \* number of calls made to the generation backend
    turns,          \* number of requests handled so far
    unusual,        \* how far the requests so far were from the plain one, in all
    decomposed_use, \* what the installed bs4 does on a destroyed Tag
    invocations     \* the calls of parse_textbook_content that ended, in order

vars == <<html_content, pc, soup, location, figures, content_blocks, result,
          SESSIONS, last_request, last_response, backend_calls, turns, unusual,
          decomposed_use, invocations>>

parserVars == <<html_content, pc, soup, location, figures, content_blocks, result>>
serverVars == <<SESSIONS, last_request, last_response, backend_calls, turns, unusual>>
callVars == <<decomposed_use, invocations>>

---------------------------------------------------------------------------
(* Texts *)

Whitespace == {" ", "\n"}
Digits == {"1", "2"}

RECURSIVE LStrip(_)
LStrip(s) == IF s # <<>> /\ Head(s) \in Whitespace THEN LStrip(Tail(s)) ELSE s

RECURSIVE RStrip(_)
RStrip(s) ==
    IF s # <<>> /\ s[Len(s)] \in Whitespace THEN RStrip(SubSeq(s, 1, Len(s) - 1)) ELSE s

\* str.strip()
Strip(s) == RStrip(LStrip(s))

RECURSIVE Join(_, _)
\* sep.join(parts)
Join(parts, sep) ==
    IF parts = <<>> THEN <<>>
    ELSE IF Len(parts) = 1 THEN parts[1]
    ELSE parts[1] \o sep \o Join(Tail(parts), sep)

\* needle in hay
Contains(hay, needle) ==
    \E i \in 0..(Len(hay) - Len(needle)) : SubSeq(hay, i + 1, i + Len(needle)) = needle

RECURSIVE SelectSeqOf(_, _)
\* the strings of a list that are not empty, in order
SelectSeqOf(parts, keepEmpty) ==
    IF parts = <<>> THEN <<>>
    ELSE IF Head(parts) = <<>> /\ ~keepEmpty THEN SelectSeqOf(Tail(parts), keepEmpty)
    ELSE <<Head(parts)>> \o SelectSeqOf(Tail(parts), keepEmpty)

---------------------------------------------------------------------------
(* The markup tree *)

NoAttr == <<"#absent">>
TexEncoding == "application/x-tex"
TextTag == "#text"

\* An element node.
Elem(tag, cls) ==
    [tag |-> tag, cls |-> cls, encoding |-> "", display |-> "", src |-> NoAttr, text |-> <<>>]
\* A NavigableString node.
Str(s) ==
    [tag |-> TextTag, cls |-> {}, encoding |-> "", display |-> "", src |-> NoAttr, text |-> s]

IsTag(n) == n.tag # TextTag

\* index of the last node of the subtree of node i
RECURSIVE SubtreeEnd(_, _, _)
SubtreeEnd(t, i, j) ==
    IF j < Len(t) /\ t[j + 1].depth > t[i].depth THEN SubtreeEnd(t, i, j + 1) ELSE j

\* indices of the descendants of node i, in document order
Descendants(t, i) == (i + 1)..SubtreeEnd(t, i, i)

\* position of the node with identity id in t; 0 when it is no longer in the tree
Pos(t, id) ==
    IF \E i \in 1..Len(t) : t[i].id = id
    THEN CHOOSE i \in 1..Len(t) : t[i].id = id
    ELSE 0

\* PageElement.extract / Tag.decompose seen from the tree: node i and its subtree leave it
RemoveSubtree(t, i) ==
    SubSeq(t, 1, i - 1) \o SubSeq(t, SubtreeEnd(t, i, i) + 1, Len(t))

\* PageElement.replace_with(string): a NavigableString takes the place of node i
ReplaceSubtree(t, i, s) ==
    SubSeq(t, 1, i - 1)
    \o <<[Str(s) EXCEPT !.text = s] @@ [id |-> t[i].id, depth |-> t[i].depth]>>
    \o SubSeq(t, SubtreeEnd(t, i, i) + 1, Len(t))

\* the smallest index of a set of node indices, 0 for the empty set (None)
First(hits) == IF hits = {} THEN 0 ELSE CHOOSE j \in hits : \A k \in hits : j <= k

RECURSIVE IdsInOrder(_, _)
\* a ResultSet: the identities of the nodes at the indices hits, in document order
IdsInOrder(t, hits) ==
    IF hits = {} THEN <<>>
    ELSE <<t[First(hits)].id>> \o IdsInOrder(t, hits \ {First(hits)})

\* the nodes carrying class c (find_all(class_=c) matches any member of the class list)
WithClass(t, c) == {j \in 1..Len(t) : t[j].tag # TextTag /\ c \in t[j].cls}

\* the nodes whose tag name is one of tags
WithTag(t, tags) == {j \in 1..Len(t) : t[j].tag \in tags}

HasClass(n, c) == IsTag(n) /\ c \in n.cls

RECURSIVE StringsUnder(_, _, _)
\* Tag._all_strings: the strings below node i (indices lo..hi), in document order
StringsUnder(t, lo, hi) ==
    IF lo > hi THEN <<>>
    ELSE (IF t[lo].tag = TextTag THEN <<t[lo].text>> ELSE <<>>) \o StringsUnder(t, lo + 1, hi)

RECURSIVE StripAll(_)
StripAll(parts) ==
    IF parts = <<>> THEN <<>> ELSE <<Strip(Head(parts))>> \o StripAll(Tail(parts))

\* Tag.get_text(separator, strip): with strip every string is stripped and the
\* empty ones are dropped before the join
GetText(t, i, separator, strip) ==
    LET strings == StringsUnder(t, i + 1, SubtreeEnd(t, i, i))
    IN  IF strip
        THEN Join(SelectSeqOf(StripAll(strings), FALSE), separator)
        ELSE Join(strings, separator)

---------------------------------------------------------------------------
(* parse_textbook_content, section 1: cleanup and pre-processing *)

\* What a call on a Tag that decompose() already destroyed does.  bs4 documents
\* the behaviour of a decomposed Tag as undefined; the releases answer find()
\* with None and decompose() with nothing ("benign"); the other outcome is an
\* exception ("raise").
DecomposedUse == {"benign", "raise"}

\* Tag.unwrap seen from the tree: node i leaves it and its children move up
Unwrap(t, i) ==
    [k \in 1..(Len(t) - 1) |->
        IF k < i THEN t[k]
        ELSE IF k + 1 \in Descendants(t, i)
             THEN [t[k + 1] EXCEPT !.depth = t[k + 1].depth - 1]
             ELSE t[k + 1]]

RECURSIVE DecomposeEach_Unwrap(_, _, _)
\* for nav in <snapshot ids>: nav.unwrap()
DecomposeEach_Unwrap(t, ids, reuse) ==
    IF ids = <<>> THEN [tree |-> t, raised |-> FALSE]
    ELSE DecomposeEach_Unwrap(Unwrap(t, Pos(t, Head(ids))), Tail(ids), reuse)

RECURSIVE DecomposeEach(_, _, _)
\* for nav in <snapshot ids>: nav.decompose()
DecomposeEach(t, ids, reuse) ==
    IF ids = <<>> THEN [tree |-> t, raised |-> FALSE]
    ELSE LET i == Pos(t, Head(ids))
         IN  IF i = 0
             THEN \* destroyed with an enclosing navigation node decomposed before it
                  IF reuse = "raise" THEN [tree |-> t, raised |-> TRUE]
                  ELSE DecomposeEach(t, Tail(ids), reuse)
             ELSE DecomposeEach(RemoveSubtree(t, i), Tail(ids), reuse)

RemoveNavigation(t, reuse) ==
    DecomposeEach(t, IdsInOrder(t, WithClass(t, "navigation")), reuse)

\* the literal display="block" as it stands in serialized markup
DisplayMarker == "display=\"block\""

\* 'display="block"' in str(katex_span): the marker is in the serialized form when
\* an element of the subtree carries the attribute or a string holds the literal
SerializedHasMarker(t, i) ==
    \E j \in {i} \cup Descendants(t, i) :
        \/ IsTag(t[j]) /\ t[j].display = "block"
        \/ ~IsTag(t[j]) /\ Contains(t[j].text, <<DisplayMarker>>)

IsDisplay(t, i) ==
    \/ SerializedHasMarker(t, i)
    \/ First({j \in Descendants(t, i) : t[j].tag = "math" /\ t[j].display = "block"}) # 0

DisplayMath_OneLine(latex_text) == <<"$", "$">> \o latex_text \o <<"$", "$">>
InlineMath_Spaced(latex_text) == <<"$", " ">> \o latex_text \o <<" ", "$">>

DisplayMath(latex_text) == <<"$", "$", "\n">> \o latex_text \o <<"\n", "$", "$">>
InlineMath(latex_text) == <<"$">> \o latex_text \o <<"$">>

\* the string that takes the place of the katex node at index i
MathReplacement(t, i) ==
    LET annotation ==
            First({j \in Descendants(t, i) :
                      t[j].tag = "annotation" /\ t[j].encoding = TexEncoding})
    IN  IF annotation # 0
        THEN LET latex_text == Strip(GetText(t, annotation, <<>>, FALSE))
             IN  IF IsDisplay(t, i) THEN DisplayMath(latex_text) ELSE InlineMath(latex_text)
        ELSE GetText(t, i, <<>>, FALSE)

RECURSIVE ReplaceEach(_, _)
\* for katex_span in <snapshot ids>: katex_span.replace_with(...).  A katex node
\* nested in one replaced before it lives on in the detached subtree only: its
\* replacement happens there and the working tree does not see it.
ReplaceEach(t, ids) ==
    IF ids = <<>> THEN t
    ELSE LET i == Pos(t, Head(ids))
         IN  IF i = 0 THEN ReplaceEach(t, Tail(ids))
             ELSE ReplaceEach(ReplaceSubtree(t, i, MathReplacement(t, i)), Tail(ids))

ProcessMath(t) == ReplaceEach(t, IdsInOrder(t, WithClass(t, "katex")))

---------------------------------------------------------------------------
(* section 2A: student location *)

RECURSIVE RunLength(_, _, _)
\* length of the longest run of atoms of set cs in s from position i on
RunLength(s, i, cs) ==
    IF i <= Len(s) /\ s[i] \in cs THEN 1 + RunLength(s, i + 1, cs) ELSE 0

RECURSIVE LineLength(_, _)
\* length of the longest run without a line break in s from position i on
LineLength(s, i) ==
    IF i <= Len(s) /\ s[i] # "\n" THEN 1 + LineLength(s, i + 1) ELSE 0

\* the pattern without its anchor at the start, as re.search would apply it
ReMatch_Search(s) ==
    LET starts == {i \in 1..Len(s) :
                     LET d1 == RunLength(s, i, Digits)
                         d2 == RunLength(s, i + d1 + 1, Digits)
                     IN  /\ d1 >= 1 /\ i + d1 <= Len(s) /\ s[i + d1] = "." /\ d2 >= 1
                         /\ RunLength(s, i + d1 + d2 + 1, Whitespace) >= 1}
    IN  IF starts = {}
        THEN [matched |-> FALSE, chapter_num |-> <<>>, section_num |-> <<>>, title |-> <<>>]
        ELSE LET i == First(starts)
                 d1 == RunLength(s, i, Digits)
                 d2 == RunLength(s, i + d1 + 1, Digits)
                 from == i + d1 + d2 + 1 + RunLength(s, i + d1 + d2 + 1, Whitespace)
             IN  [matched |-> TRUE,
                  chapter_num |-> SubSeq(s, i, i + d1 - 1),
                  section_num |-> SubSeq(s, i + d1 + 1, i + d1 + d2),
                  title |-> SubSeq(s, from, from + LineLength(s, from) - 1)]

\* re.match(r'(\d+)\.(\d+)\s+(.*)', s): every quantifier is greedy and the
\* classes it separates are disjoint, so the first attempt decides the match;
\* '.' does not match a line break.
ReMatch(s) ==
    LET d1 == RunLength(s, 1, Digits)
        dot == d1 + 1
        d2 == RunLength(s, dot + 1, Digits)
        ws == RunLength(s, dot + d2 + 1, Whitespace)
        from == dot + d2 + ws + 1
    IN  IF d1 >= 1 /\ dot <= Len(s) /\ s[dot] = "." /\ d2 >= 1 /\ ws >= 1
        THEN [matched |-> TRUE,
              chapter_num |-> SubSeq(s, 1, d1),
              section_num |-> SubSeq(s, dot + 1, dot + d2),
              title |-> SubSeq(s, from, from + LineLength(s, from) - 1)]
        ELSE [matched |-> FALSE, chapter_num |-> <<>>, section_num |-> <<>>, title |-> <<>>]

\* the literal " — " (space, em dash, space) of the section label
EmDash == " -- "

ParseLocation(t) ==
    LET location_header == First(WithTag(t, {"h1"}))
        location_text ==
            IF location_header # 0 THEN GetText(t, location_header, <<>>, TRUE)
            ELSE <<"Unknown Location">>
        match == ReMatch(location_text)
    IN  [found |-> location_header # 0,
         node |-> IF location_header # 0 THEN t[location_header].id ELSE 0,
         text |-> location_text,
         chapter_info |-> IF match.matched THEN match.chapter_num ELSE <<"Unknown">>,
         section_info |->
            IF match.matched
            THEN match.chapter_num \o <<".">> \o match.section_num \o <<EmDash>> \o match.title
            ELSE location_text]

---------------------------------------------------------------------------
(* section 2B: figures *)

RECURSIVE LastSegment(_)
\* src.split('/')[-1]
LastSegment(s) ==
    IF \E i \in 1..Len(s) : s[i] = "/"
    THEN LastSegment(SubSeq(s, (CHOOSE i \in 1..Len(s) : s[i] = "/") + 1, Len(s)))
    ELSE s

\* the record of the figure container at index i of t
FigureRecord(t, i) ==
    LET img == First(Descendants(t, i) \cap WithTag(t, {"img"}))
        caption == First(Descendants(t, i) \cap WithClass(t, "figure-caption"))
        src == IF img # 0
               THEN (IF t[img].src # NoAttr /\ t[img].src # <<>> THEN t[img].src ELSE <<>>)
               ELSE <<"No Source">>
        caption_text == IF caption # 0 THEN GetText(t, caption, <<>>, TRUE)
                        ELSE <<"No Caption">>
    IN  [id |-> LastSegment(src), description |-> caption_text, fig |-> t[i].id]

RECURSIVE ExtractEach_KeepInTree(_, _, _, _)
\* the loop without fig.decompose()
ExtractEach_KeepInTree(t, ids, figs, reuse) ==
    IF ids = <<>> THEN [tree |-> t, figures |-> figs, raised |-> FALSE]
    ELSE ExtractEach_KeepInTree(t, Tail(ids),
                                Append(figs, FigureRecord(t, Pos(t, Head(ids)))), reuse)

RECURSIVE ExtractEach(_, _, _, _)
\* for fig in <snapshot ids>: ... figures.append(...); fig.decompose()
ExtractEach(t, ids, figs, reuse) ==
    IF ids = <<>> THEN [tree |-> t, figures |-> figs, raised |-> FALSE]
    ELSE LET i == Pos(t, Head(ids))
         IN  IF i = 0
             THEN \* destroyed with an enclosing figure container: find() on it
                  IF reuse = "raise" THEN [tree |-> t, figures |-> figs, raised |-> TRUE]
                  ELSE ExtractEach(t, Tail(ids),
                           Append(figs, [id |-> <<"No Source">>,
                                         description |-> <<"No Caption">>,
                                         fig |-> Head(ids)]),
                           reuse)
             ELSE ExtractEach(RemoveSubtree(t, i), Tail(ids),
                              Append(figs, FigureRecord(t, i)), reuse)

\* the loop appending to a list that outlives the call instead of the fresh
\* list of line 53
ExtractFigures_Shared(t, reuse) ==
    ExtractEach(t, IdsInOrder(t, WithClass(t, "figure-container")), figures, reuse)

ExtractFigures(t, reuse) ==
    ExtractEach(t, IdsInOrder(t, WithClass(t, "figure-container")), <<>>, reuse)

---------------------------------------------------------------------------
(* section 2C: main text and expandable sections *)

EquationBlock(text) == <<"\n">> \o text \o <<"\n">>
Sidebar(header_text, inner_text) ==
    <<"\n", "[SIDEBAR: ">> \o header_text \o <<"]", "\n">> \o inner_text \o <<"\n">>

\* the loop body without the test "if text:" of the paragraph branch
BlockOf_KeepEmpty(t, i) ==
    LET classes == t[i].cls
    IN  IF "equation-block" \in classes
        THEN <<[node |-> t[i].id, kind |-> "Equation",
                text |-> EquationBlock(GetText(t, i, <<" ">>, TRUE))]>>
        ELSE IF "expandable-section" \in classes
        THEN LET header == First(Descendants(t, i) \cap WithClass(t, "header-text"))
                 header_text == IF header # 0 THEN GetText(t, header, <<>>, TRUE)
                                ELSE <<"Note">>
                 inner_content == First(Descendants(t, i) \cap WithClass(t, "expand-content"))
                 inner_text == IF inner_content # 0
                               THEN GetText(t, inner_content, <<" ">>, TRUE) ELSE <<>>
             IN  <<[node |-> t[i].id, kind |-> "Sidebar",
                    text |-> Sidebar(header_text, inner_text)]>>
        ELSE IF t[i].tag = "p"
        THEN <<[node |-> t[i].id, kind |-> "Prose", text |-> GetText(t, i, <<" ">>, TRUE)]>>
        ELSE <<>>

\* the blocks element i of t appends: none or one
BlockOf(t, i) ==
    LET classes == t[i].cls
    IN  IF "equation-block" \in classes
        THEN <<[node |-> t[i].id, kind |-> "Equation",
                text |-> EquationBlock(GetText(t, i, <<" ">>, TRUE))]>>
        ELSE IF "expandable-section" \in classes
        THEN LET header == First(Descendants(t, i) \cap WithClass(t, "header-text"))
                 header_text == IF header # 0 THEN GetText(t, header, <<>>, TRUE)
                                ELSE <<"Note">>
                 inner_content == First(Descendants(t, i) \cap WithClass(t, "expand-content"))
                 inner_text == IF inner_content # 0
                               THEN GetText(t, inner_content, <<" ">>, TRUE) ELSE <<>>
             IN  <<[node |-> t[i].id, kind |-> "Sidebar",
                    text |-> Sidebar(header_text, inner_text)]>>
        ELSE IF t[i].tag = "p"
        THEN LET text == GetText(t, i, <<" ">>, TRUE)
             IN  IF text # <<>>
                 THEN <<[node |-> t[i].id, kind |-> "Prose", text |-> text]>>
                 ELSE <<>>
        ELSE <<>>

RECURSIVE BlocksFrom(_, _)
\* for element in soup.find_all(['p', 'div']): the tree does not change in this
\* loop, so every element found is still attached (element.parent is not None)
BlocksFrom(t, ids) ==
    IF ids = <<>> THEN <<>>
    ELSE BlockOf(t, Pos(t, Head(ids))) \o BlocksFrom(t, Tail(ids))

ClassifyBlocks(t) == BlocksFrom(t, IdsInOrder(t, WithTag(t, {"p", "div"})))

---------------------------------------------------------------------------
(* section 3: format output *)

RECURSIVE BlockLines(_)
BlockLines(blocks) ==
    IF blocks = <<>> THEN <<>> ELSE <<Head(blocks).text>> \o BlockLines(Tail(blocks))

RECURSIVE FigureLines_NewestFirst(_)
FigureLines_NewestFirst(figs) ==
    IF figs = <<>> THEN <<>>
    ELSE FigureLines_NewestFirst(Tail(figs))
         \o << Head(figs).description \o <<":">>,
                <<"Filename: ">> \o Head(figs).id,
                <<"(Image attached)", "\n">> >>

RECURSIVE FigureLines(_)
FigureLines(figs) ==
    IF figs = <<>> THEN <<>>
    ELSE << Head(figs).description \o <<":">>,
            <<"Filename: ">> \o Head(figs).id,
            <<"(Image attached)", "\n">> >> \o FigureLines(Tail(figs))

\* the list output before the join
OutputLines(loc, blocks, figs) ==
    << <<"[STUDENT LOCATION]">>,
       <<"Chapter: ">> \o loc.chapter_info,
       <<"Section: ">> \o loc.section_info,
       <<>>,
       <<"[SECTION TEXT - AUTHORITATIVE]">> >>
    \o BlockLines(blocks)
    \o << <<>>, <<"[FIGURES - AUTHORITATIVE]">> >>
    \o (IF figs # <<>> THEN FigureLines(figs) ELSE << <<"No figures in this section.">> >>)

FormatOutput(loc, blocks, figs) == Join(OutputLines(loc, blocks, figs), <<"\n">>)

---------------------------------------------------------------------------
(* parse_textbook_content as one call *)

\* BeautifulSoup(html_content, 'html.parser') answers with a tree or rejects
\* the markup; Unparsable stands for markup it rejects.
Unparsable == <<[tag |-> "#rejected"]>>

Raised == [raised |-> TRUE, text |-> <<>>]

parse_textbook_content(html, reuse) ==
    IF html = Unparsable THEN Raised
    ELSE LET cleaned == RemoveNavigation(html, reuse)
         IN  IF cleaned.raised THEN Raised
             ELSE LET math == ProcessMath(cleaned.tree)
                      loc == ParseLocation(math)
                      figs == ExtractFigures(math, reuse)
                  IN  IF figs.raised THEN Raised
                      ELSE [raised |-> FALSE,
                            text |-> FormatOutput(loc, ClassifyBlocks(figs.tree),
                                                  figs.figures)]

---------------------------------------------------------------------------
(* Input trees *)

Root == Elem("#root", {})

\* a node without its place in the tree
Proto(n) ==
    [tag |-> n.tag, cls |-> n.cls, encoding |-> n.encoding, display |-> n.display,
     src |-> n.src, text |-> n.text]

\* the parent of a node appended to t at depth d: the last node at depth d - 1
ParentProto(t, d) ==
    IF d = 1 THEN Root
    ELSE Proto(t[CHOOSE j \in 1..Len(t) :
                    /\ t[j].depth = d - 1
                    /\ \A k \in (j + 1)..Len(t) : t[k].depth >= d])

LastDepth(t) == IF t = <<>> THEN 0 ELSE t[Len(t)].depth

\* the nodes grammar allows below parent
ChildrenOf(grammar, parent) == IF parent \in DOMAIN grammar THEN grammar[parent] ELSE {}

\* the trees t grows into by one more node, the next in document order; grammar
\* maps a parent to the nodes that may stand below it.  The tree builder merges
\* adjacent strings, so a string never follows a sibling string.
Extend(t, grammar) ==
    UNION { { Append(t, q @@ [id |-> Len(t) + 1, depth |-> d]) :
                q \in { c \in ChildrenOf(grammar, ParentProto(t, d)) :
                          ~(c.tag = TextTag /\ t # <<>> /\ t[Len(t)].tag = TextTag
                            /\ t[Len(t)].depth = d) } } :
            d \in 1..(LastDepth(t) + 1) }

---------------------------------------------------------------------------
(* parse_textbook_content step by step *)

NoLocation ==
    [found |-> FALSE, node |-> 0, text |-> <<>>, chapter_info |-> <<>>, section_info |-> <<>>]

ServerIdle ==
    /\ SESSIONS = [sid \in {} |-> <<>>]
    /\ last_request = <<>>
    /\ last_response = <<>>
    /\ backend_calls = 0
    /\ turns = 0
    /\ unusual = 0

\* The behaviour of a destroyed Tag is a property of the installed bs4 release:
\* it is the same in every call of one run.
Library ==
    /\ decomposed_use \in DecomposedUse
    /\ invocations = <<>>

ParserStart ==
    /\ html_content \in {<<>>, Unparsable}
    /\ pc = "input"
    /\ soup = <<>>
    /\ location = NoLocation
    /\ figures = <<>>
    /\ content_blocks = <<>>
    /\ result = <<>>

\* the caller's markup grows by one node, up to maxNodes nodes
Grow(grammar, maxNodes) ==
    /\ pc = "input"
    /\ html_content # Unparsable
    /\ Len(html_content) < maxNodes
    /\ html_content' \in Extend(html_content, grammar)
    /\ UNCHANGED <<pc, soup, location, figures, content_blocks, result, serverVars, callVars>>

\* line 9
BuildSoup ==
    /\ pc = "input"
    /\ IF html_content = Unparsable
       THEN pc' = "raised" /\ UNCHANGED soup
       ELSE pc' = "soup" /\ soup' = html_content
    /\ UNCHANGED <<html_content, location, figures, content_blocks, result, serverVars, callVars>>

\* lines 13-15
Cleanup ==
    /\ pc = "soup"
    /\ LET r == RemoveNavigation(soup, decomposed_use)
       IN  /\ soup' = r.tree
           /\ pc' = IF r.raised THEN "raised" ELSE "cleaned"
    /\ UNCHANGED <<html_content, location, figures, content_blocks, result, serverVars, callVars>>

\* lines 20-35
Math ==
    /\ pc = "cleaned"
    /\ soup' = ProcessMath(soup)
    /\ pc' = "math"
    /\ UNCHANGED <<html_content, location, figures, content_blocks, result, serverVars, callVars>>

\* lines 40-50
Locate ==
    /\ pc = "math"
    /\ location' = ParseLocation(soup)
    /\ pc' = "located"
    /\ UNCHANGED <<html_content, soup, figures, content_blocks, result, serverVars, callVars>>

\* lines 53-70
Figures ==
    /\ pc = "located"
    /\ LET r == ExtractFigures(soup, decomposed_use)
       IN  /\ soup' = r.tree
           /\ figures' = r.figures
           /\ pc' = IF r.raised THEN "raised" ELSE "figures"
    /\ UNCHANGED <<html_content, location, content_blocks, result, serverVars, callVars>>

\* lines 73-107
Blocks ==
    /\ pc = "figures"
    /\ content_blocks' = ClassifyBlocks(soup)
    /\ pc' = "blocks"
    /\ UNCHANGED <<html_content, soup, location, figures, result, serverVars, callVars>>

\* lines 111-136
Format ==
    /\ pc = "blocks"
    /\ result' = FormatOutput(location, content_blocks, figures)
    /\ pc' = "done"
    /\ UNCHANGED <<html_content, soup, location, figures, content_blocks, serverVars, callVars>>

NextParser == BuildSoup \/ Cleanup \/ Math \/ Locate \/ Figures \/ Blocks \/ Format

---------------------------------------------------------------------------
(* Pages with math *)

MaxMathNodes == 6

P == Elem("p", {})
Div == Elem("div", {})
Span == Elem("span", {})
H1 == Elem("h1", {})
Katex == Elem("span", {"katex"})
MathBlock == [Elem("math", {}) EXCEPT !.display = "block"]
AnnotationTex == [Elem("annotation", {}) EXCEPT !.encoding = TexEncoding]
EquationDiv == Elem("div", {"equation-block"})

MathGrammar ==
    (Root :> {P, Katex})
    @@ (P :> {Str(<<"x">>), Katex})
    @@ (Katex :> {MathBlock, AnnotationTex, Katex, Str(<<"y">>)})
    @@ (MathBlock :> {AnnotationTex})
    @@ (AnnotationTex :> {Str(<<" ", "e", "\n">>)})

InitParser == ParserStart /\ ServerIdle /\ Library

NextMath == Grow(MathGrammar, MaxMathNodes) \/ NextParser
SpecMath == InitParser /\ [][NextMath]_vars

---------------------------------------------------------------------------
(* Vocabulary of the properties *)

\* indices of the ancestors of node i
Ancestors(t, i) == {j \in 1..(i - 1) : i \in Descendants(t, j)}

\* the tree the math, location and figure steps start from
CleanedInput == RemoveNavigation(html_content, "benign").tree

\* math containers the math step meets in the working tree: those not nested
\* in another math container
TopMath(t) == {i \in WithClass(t, "katex") : Ancestors(t, i) \cap WithClass(t, "katex") = {}}

TexAnnotations(t, i) ==
    {j \in Descendants(t, i) : t[j].tag = "annotation" /\ t[j].encoding = TexEncoding}

\* the trimmed text E of the first TeX annotation of container i
TexSource(t, i) == Strip(GetText(t, First(TexAnnotations(t, i)), <<>>, FALSE))

DisplayContainers(t) == {i \in TopMath(t) : TexAnnotations(t, i) # {} /\ IsDisplay(t, i)}
InlineContainers(t) == {i \in TopMath(t) : TexAnnotations(t, i) # {} /\ ~IsDisplay(t, i)}

InFigure(t, i) == (Ancestors(t, i) \cup {i}) \cap WithClass(t, "figure-container") # {}

\* a plain paragraph, or an equation block
ProseOrEquation(t, a) ==
    /\ t[a].tag \in {"p", "div"}
    /\ \/ "equation-block" \in t[a].cls
       \/ t[a].tag = "p" /\ "expandable-section" \notin t[a].cls

\* the paragraphs and equation blocks of the body that enclose node i
BodyBlocksAround(t, i) ==
    {a \in Ancestors(t, i) : ProseOrEquation(t, a) /\ ~InFigure(t, a)}

\* node i is replaced, where it stood, by the one string s
ReplacedBy(before, i, after, s) ==
    LET j == Pos(after, before[i].id)
    IN  /\ j # 0
        /\ after[j].tag = TextTag
        /\ after[j].text = s
        /\ after[j].depth = before[i].depth
        /\ Cardinality({k \in 1..Len(after) : after[k].id = before[i].id}) = 1
        /\ \A d \in Descendants(before, i) : Pos(after, before[d].id) = 0
        /\ j > 1 => Pos(before, after[j - 1].id) \in 1..(i - 1)

\* nothing that renders stands before node i inside block a: no string with
\* visible text and no math container
LeadsBlock(t, a, i) ==
    \A j \in Descendants(t, a) :
        j < i => /\ t[j].tag = TextTag => Strip(t[j].text) = <<>>
                 /\ j \notin WithClass(t, "katex")

---------------------------------------------------------------------------
(* C1: display math *)

---------------------------------------------------------------------------
(* C6: inline math *)

---------------------------------------------------------------------------
(* Pages with figures *)

MaxFigureNodes == 5

Figure == Elem("div", {"figure-container"})
Img == [Elem("img", {}) EXCEPT !.src = <<"i", "/", "r">>]
ImgNoSrc == Elem("img", {})
Caption == Elem("div", {"figure-caption"})

FigureGrammar ==
    (Root :> {Figure, P})
    @@ (Figure :> {Figure, Img, ImgNoSrc, Caption, P, H1})
    @@ (Caption :> {Str(<<" ", "c">>)})
    @@ (P :> {Str(<<"x">>), Figure})
    @@ (H1 :> {Str(<<"t">>)})

NextFigures == Grow(FigureGrammar, MaxFigureNodes) \/ NextParser
SpecFigures == InitParser /\ [][NextFigures]_vars

\* the tree the location and figure steps work on
MathDone == ProcessMath(CleanedInput)

AfterFigures == pc \in {"figures", "blocks", "done"}

\* the first image below figure container f, 0 when it has none
ImageOf(t, f) == First(Descendants(t, f) \cap WithTag(t, {"img"}))
\* the first caption node below figure container f, 0 when it has none
CaptionOf(t, f) == First(Descendants(t, f) \cap WithClass(t, "figure-caption"))

\* the text after the last "/" of s
FinalSegment(s) ==
    LET slashes == {i \in 1..Len(s) : s[i] = "/"}
    IN  IF slashes = {} THEN s
        ELSE SubSeq(s, (CHOOSE i \in slashes : \A k \in slashes : k <= i) + 1, Len(s))

RECURSIVE Concat(_)
\* flattened visible text: the strings one after the other
Concat(parts) == IF parts = <<>> THEN <<>> ELSE Head(parts) \o Concat(Tail(parts))

---------------------------------------------------------------------------
(* C2: one record per figure container *)

\* C2: every figure container yields exactly one record; its id is the final
\* "/"-separated segment of the image's src when the image has one and of
\* "No Source" otherwise (no image, or an image without src); its description is
\* the caption's trimmed text, "No Caption" without a caption node.
C2_AsStated ==
    AfterFigures =>
        \A f \in WithClass(MathDone, "figure-container") :
            /\ Cardinality({k \in 1..Len(figures) : figures[k].fig = MathDone[f].id}) = 1
            /\ \A k \in 1..Len(figures) :
                  figures[k].fig = MathDone[f].id =>
                    /\ figures[k].id =
                          FinalSegment(IF ImageOf(MathDone, f) # 0
                                          /\ MathDone[ImageOf(MathDone, f)].src # NoAttr
                                       THEN MathDone[ImageOf(MathDone, f)].src
                                       ELSE <<"No Source">>)
                    /\ figures[k].description =
                          IF CaptionOf(MathDone, f) # 0
                          THEN GetText(MathDone, CaptionOf(MathDone, f), <<>>, TRUE)
                          ELSE <<"No Caption">>

---------------------------------------------------------------------------
(* C7: the figures section *)

RECURSIVE FigureGroups(_)
\* per record the lines "{description}:", "Filename: {id}", "(Image attached)"
\* and the empty line the marker's own line break leaves
FigureGroups(figs) ==
    IF figs = <<>> THEN <<>>
    ELSE Head(figs).description \o <<":", "\n", "Filename: ">> \o Head(figs).id
         \o <<"\n", "(Image attached)", "\n">>
         \o (IF Tail(figs) = <<>> THEN <<>> ELSE <<"\n">> \o FigureGroups(Tail(figs)))

\* the text of the returned document after the figures header line
FiguresSection(doc) ==
    LET at == CHOOSE i \in 1..Len(doc) : doc[i] = "[FIGURES - AUTHORITATIVE]"
    IN  SubSeq(doc, at + 2, Len(doc))

\* C7: the figures section lists one group per figure container, in document
\* order and with repeats kept, each group the lines "{description}:",
\* "Filename: {id}", "(Image attached)"; without figure containers it is the one
\* line "No figures in this section.", which never appears otherwise.
C7_FiguresSection ==
    /\ AfterFigures =>
          /\ Len(figures) = Cardinality(WithClass(MathDone, "figure-container"))
          /\ \A k \in 1..Len(figures) :
                figures[k].fig = IdsInOrder(MathDone, WithClass(MathDone, "figure-container"))[k]
    /\ pc = "done" =>
          /\ Cardinality({i \in 1..Len(result) : result[i] = "[FIGURES - AUTHORITATIVE]"}) = 1
          /\ WithClass(MathDone, "figure-container") = {} =>
                FiguresSection(result) = <<"No figures in this section.">>
          /\ WithClass(MathDone, "figure-container") # {} =>
                /\ FiguresSection(result) = FigureGroups(figures)
                /\ \A i \in 1..Len(result) : result[i] # "No figures in this section."

\* two figure containers with the same image and caption: two equal groups
C7_Witness ==
    /\ pc = "done"
    /\ Len(figures) >= 2
    /\ figures[1].id = figures[2].id
    /\ figures[1].description = figures[2].description
    /\ figures[1].id # <<"No Source">>
    /\ FiguresSection(result) = FigureGroups(figures)

---------------------------------------------------------------------------
(* C5: figure containers leave the working tree *)

RECURSIVE Keeping(_, _, _)
\* the nodes of t from index i on whose index is in keep, in document order
Keeping(t, i, keep) ==
    IF i > Len(t) THEN <<>>
    ELSE (IF i \in keep THEN <<t[i]>> ELSE <<>>) \o Keeping(t, i + 1, keep)

\* t without its figure containers and everything below them
FigureFree(t) == Keeping(t, 1, {i \in 1..Len(t) : ~InFigure(t, i)})

\* no figure container is left in the working tree and nothing else left it;
\* every content block comes from a node outside the figure containers, and the
\* blocks are those of the tree without the figure containers
FiguresLeaveBody ==
    /\ AfterFigures => soup = FigureFree(MathDone)
    /\ pc \in {"blocks", "done"} =>
          /\ \A k \in 1..Len(content_blocks) :
                ~InFigure(MathDone, Pos(MathDone, content_blocks[k].node))
          /\ content_blocks = ClassifyBlocks(FigureFree(MathDone))

\* C5 as stated: figure containers leave the tree with their subtrees, nothing
\* inside one contributes to a content block, and figure content appears only
\* in the figures section.
C5_AsStated ==
    /\ FiguresLeaveBody
    /\ pc = "done" =>
          (location.found /\ location.text # <<>>
             => ~InFigure(MathDone, Pos(MathDone, location.node)))

\* C5 (amended): figure containers leave the tree with their subtrees and
\* nothing inside one contributes to a content block of the body; outside the
\* figures section figure content can appear in the location lines, which are
\* taken from the first h1 of the tree even when it lies inside a figure
\* container.
C5_FiguresLeaveBody ==
    /\ FiguresLeaveBody
    /\ pc = "done" =>
          /\ location.found = (WithTag(MathDone, {"h1"}) # {})
          /\ location.found =>
                /\ location.node = MathDone[First(WithTag(MathDone, {"h1"}))].id
                /\ location.text = Concat(StripAll(StringsUnder(MathDone,
                                        Pos(MathDone, location.node) + 1,
                                        SubtreeEnd(MathDone, Pos(MathDone, location.node),
                                                   Pos(MathDone, location.node)))))

\* a paragraph inside a figure container, and one outside that is in the body
C5_Witness ==
    /\ pc = "done"
    /\ \E j \in WithTag(MathDone, {"p"}) : InFigure(MathDone, j) /\ Descendants(MathDone, j) # {}
    /\ Len(content_blocks) = 1

---------------------------------------------------------------------------
(* Pages with headings *)

MaxLocationNodes == 4

Navigation == Elem("div", {"navigation"})

HeadingStrings ==
    { Str(<<"2", ".", "1", " ", "T">>),
      Str(<<" ", "1", "2", ".", "2", "1", " ", "\n", "T", " ", "U", "\n", "V", " ">>),
      Str(<<"2", ".", "1">>),
      Str(<<"2", ".", " ", "T">>),
      Str(<<"T", " ", "2", ".", "1", " ", "U">>),
      Str(<<"T">>) }

LocationGrammar ==
    (Root :> {H1, Navigation, Span})
    @@ (H1 :> HeadingStrings \cup {Span})
    @@ (Span :> {Str(<<"2", ".", "1", " ">>), Str(<<"T">>), H1})
    @@ (Navigation :> {H1})

NextLocation == Grow(LocationGrammar, MaxLocationNodes) \/ NextParser
SpecLocation == InitParser /\ [][NextLocation]_vars

---------------------------------------------------------------------------
(* C3: chapter and section labels *)

\* the trimmed text of the first h1 of the tree
HeadingText(t) ==
    Concat(StripAll(StringsUnder(t, First(WithTag(t, {"h1"})) + 1,
                                 SubtreeEnd(t, First(WithTag(t, {"h1"})),
                                            First(WithTag(t, {"h1"}))))))

\* s reads: a digits, ".", b digits, whitespace, ...
NumberedAt(s, a, b) ==
    /\ a >= 1 /\ b >= 1 /\ Len(s) >= a + b + 2
    /\ \A k \in 1..a : s[k] \in Digits
    /\ s[a + 1] = "."
    /\ \A k \in (a + 2)..(a + b + 1) : s[k] \in Digits
    /\ s[a + b + 2] \in Whitespace

\* the title of s numbered at a, b: what follows the whitespace, to the end of
\* the line
TitleAt(s, a, b) ==
    LET from == CHOOSE i \in (a + b + 3)..(Len(s) + 1) :
                    /\ \A k \in (a + b + 2)..(i - 1) : s[k] \in Whitespace
                    /\ i <= Len(s) => s[i] \notin Whitespace
        to == CHOOSE j \in (from - 1)..Len(s) :
                    /\ \A k \in from..j : s[k] # "\n"
                    /\ j < Len(s) => s[j + 1] = "\n"
    IN  SubSeq(s, from, to)

Numbered(s) == \E a \in 1..Len(s) : \E b \in 1..Len(s) : NumberedAt(s, a, b)

AfterLocation == pc \in {"located", "figures", "blocks", "done"}

\* C3: a first h1 whose trimmed text reads digits "." digits whitespace title
\* gives chapter = the chapter digits and section = "{chapter}.{section} -
\* {title}"; a first h1 that does not read so gives chapter "Unknown" and
\* section = the heading text; no h1 gives "Unknown" and "Unknown Location".
\* The labels are the Chapter: and Section: lines of the output.
C3_Location ==
    /\ AfterLocation =>
          /\ WithTag(MathDone, {"h1"}) = {} =>
                /\ location.chapter_info = <<"Unknown">>
                /\ location.section_info = <<"Unknown Location">>
          /\ WithTag(MathDone, {"h1"}) # {} =>
                /\ ~Numbered(HeadingText(MathDone)) =>
                      /\ location.chapter_info = <<"Unknown">>
                      /\ location.section_info = HeadingText(MathDone)
                /\ \A a \in 1..Len(HeadingText(MathDone)) :
                   \A b \in 1..Len(HeadingText(MathDone)) :
                      NumberedAt(HeadingText(MathDone), a, b) =>
                         /\ location.chapter_info = SubSeq(HeadingText(MathDone), 1, a)
                         /\ location.section_info =
                               SubSeq(HeadingText(MathDone), 1, a + b + 1) \o <<EmDash>>
                               \o TitleAt(HeadingText(MathDone), a, b)
    /\ pc = "done" =>
          SubSeq(result, 1, 7 + Len(location.chapter_info) + Len(location.section_info))
             = <<"[STUDENT LOCATION]", "\n", "Chapter: ">> \o location.chapter_info
               \o <<"\n", "Section: ">> \o location.section_info \o <<"\n", "\n">>

\* a numbered heading of two lines: the title is the rest of its first line
C3_Witness ==
    /\ pc = "done"
    /\ location.chapter_info = <<"1", "2">>
    /\ location.section_info = <<"1", "2", ".", "2", "1", EmDash, "T", " ", "U">>

---------------------------------------------------------------------------
(* Pages with navigation chrome *)

MaxNavigationNodes == 4

NavigationGrammar ==
    (Root :> {Navigation, P, H1, Figure})
    @@ (Navigation :> {Navigation, P, H1, Figure, Str(<<"n">>)})
    @@ (P :> {Navigation, Str(<<"x">>)})
    @@ (H1 :> {Navigation, Str(<<"t">>)})
    @@ (Figure :> {Navigation, Caption})
    @@ (Caption :> {Navigation, Str(<<"c">>)})

NextNavigation == Grow(NavigationGrammar, MaxNavigationNodes) \/ NextParser
SpecNavigation == InitParser /\ [][NextNavigation]_vars

---------------------------------------------------------------------------
(* C4: navigation nodes never reach the output *)

InNavigation(t, i) == (Ancestors(t, i) \cup {i}) \cap WithClass(t, "navigation") # {}

\* t without its navigation nodes and everything below them
NavigationFree(t) == Keeping(t, 1, {i \in 1..Len(t) : ~InNavigation(t, i)})

\* the atoms of the strings of t at the indices among
AtomsOf(t, among) == UNION {{t[i].text[k] : k \in 1..Len(t[i].text)} : i \in among}

\* the atoms the formatter writes itself
OwnAtoms ==
    {"\n", " ", "$", ".", ":", "]", EmDash, "[STUDENT LOCATION]", "Chapter: ", "Section: ",
     "Unknown", "Unknown Location", "[SECTION TEXT - AUTHORITATIVE]", "[SIDEBAR: ", "Note",
     "[FIGURES - AUTHORITATIVE]", "Filename: ", "(Image attached)", "No Source", "No Caption",
     "No figures in this section."}

\* atoms the page holds in strings below navigation nodes and nowhere else
NavigationOnlyAtoms(t) ==
    AtomsOf(t, {i \in 1..Len(t) : InNavigation(t, i)})
    \ (AtomsOf(t, {i \in 1..Len(t) : ~InNavigation(t, i)})
        \cup UNION {{t[i].src[k] : k \in 1..Len(t[i].src)} : i \in 1..Len(t)}
        \cup OwnAtoms)

AfterCleanup == pc \in {"cleaned", "math", "located", "figures", "blocks", "done"}

\* C4: after noise removal no navigation node and no node below one is in the
\* working tree, at any depth, and every other node still is (a page without
\* navigation nodes is left as it was); the location lines, the figure records
\* and the content blocks come from nodes outside navigation, and the returned
\* document is the one the page gives with its navigation subtrees cut out.
C4_NoNavigation ==
    /\ pc = "cleaned" => soup = NavigationFree(html_content)
    /\ AfterCleanup =>
          \A i \in 1..Len(soup) : ~InNavigation(html_content, Pos(html_content, soup[i].id))
    /\ AfterLocation =>
          (location.found => ~InNavigation(html_content, Pos(html_content, location.node)))
    /\ AfterFigures =>
          \A k \in 1..Len(figures) :
             ~InNavigation(html_content, Pos(html_content, figures[k].fig))
    /\ pc = "done" =>
          /\ \A k \in 1..Len(content_blocks) :
                ~InNavigation(html_content, Pos(html_content, content_blocks[k].node))
          /\ \A i \in 1..Len(result) : result[i] \notin NavigationOnlyAtoms(html_content)
          /\ result = parse_textbook_content(NavigationFree(html_content), "benign").text

\* navigation nodes below a paragraph, a heading and a figure caption, nested
\* in one another or not, and extraction finished
C4_Witness ==
    /\ pc = "done"
    /\ \E i \in WithClass(html_content, "navigation") :
          /\ Ancestors(html_content, i) \cap WithTag(html_content, {"p", "h1"}) # {}
          /\ \E j \in Descendants(html_content, i) : html_content[j].text = <<"n">>
    /\ Len(content_blocks) + Len(location.text) >= 1

---------------------------------------------------------------------------
(* Pages with paragraphs, equation blocks and expandable sections *)

MaxBlockNodes == 4

ExpandableSection == Elem("div", {"expandable-section"})
HeaderText == Elem("span", {"header-text"})
ExpandContent == Elem("div", {"expand-content"})

BlockGrammar ==
    (Root :> {P, Div, EquationDiv, ExpandableSection, Str(<<"w">>)})
    @@ (P :> {Str(<<"x">>), Str(<<" ", "\n">>), Str(<<" ", "y", " ">>), Span, P})
    @@ (Span :> {Str(<<"x">>), Str(<<" ">>)})
    @@ (Div :> {P, Str(<<"w">>)})
    @@ (EquationDiv :> {P, Str(<<"q">>), Str(<<" ">>)})
    @@ (ExpandableSection :> {HeaderText, ExpandContent, P})
    @@ (HeaderText :> {Str(<<"h">>)})
    @@ (ExpandContent :> {P, Str(<<"s">>)})

NextBlocks == Grow(BlockGrammar, MaxBlockNodes) \/ NextParser
SpecBlocks == InitParser /\ [][NextBlocks]_vars

---------------------------------------------------------------------------
(* C8: empty paragraphs are suppressed *)

\* the tree the block loop walks
FiguresDone == FigureFree(MathDone)

\* the plain paragraphs: p elements that are neither equation block nor
\* expandable section
PlainParagraphs(t) ==
    {i \in WithTag(t, {"p"}) :
        "equation-block" \notin t[i].cls /\ "expandable-section" \notin t[i].cls}

RECURSIVE SpaceJoined(_)
\* the non-empty ones of the strings, a space between them
SpaceJoined(parts) ==
    IF parts = <<>> THEN <<>>
    ELSE IF Head(parts) = <<>> THEN SpaceJoined(Tail(parts))
    ELSE IF SpaceJoined(Tail(parts)) = <<>> THEN Head(parts)
    ELSE Head(parts) \o <<" ">> \o SpaceJoined(Tail(parts))

\* the flattened, trimmed text of node i
FlatText(t, i) == SpaceJoined(StripAll(StringsUnder(t, i + 1, SubtreeEnd(t, i, i))))

\* the text of the returned document between the body header line and the
\* figures header
BodySection(doc) ==
    LET from == CHOOSE i \in 1..Len(doc) : doc[i] = "[SECTION TEXT - AUTHORITATIVE]"
        to == CHOOSE i \in 1..Len(doc) : doc[i] = "[FIGURES - AUTHORITATIVE]"
    IN  SubSeq(doc, from + 2, to - 1)

RECURSIVE BlockLineGroups(_)
\* every block on a line group of its own
BlockLineGroups(blocks) ==
    IF blocks = <<>> THEN <<>>
    ELSE Head(blocks).text \o <<"\n">> \o BlockLineGroups(Tail(blocks))

\* C8: a plain paragraph whose flattened, trimmed text is empty produces no
\* content block and no line of the body; every plain paragraph with text
\* produces exactly one Prose block holding that text.
C8_Paragraphs ==
    /\ pc \in {"blocks", "done"} =>
          /\ \A i \in PlainParagraphs(FiguresDone) :
                LET mine == {k \in 1..Len(content_blocks) :
                                content_blocks[k].node = FiguresDone[i].id}
                IN  IF FlatText(FiguresDone, i) = <<>> THEN mine = {}
                    ELSE /\ Cardinality(mine) = 1
                         /\ \A k \in mine :
                               /\ content_blocks[k].kind = "Prose"
                               /\ content_blocks[k].text = FlatText(FiguresDone, i)
          /\ \A k \in 1..Len(content_blocks) :
                content_blocks[k].kind = "Prose" =>
                   Pos(FiguresDone, content_blocks[k].node) \in PlainParagraphs(FiguresDone)
    /\ pc = "done" => BodySection(result) = BlockLineGroups(content_blocks) \o <<"\n">>

\* a paragraph of whitespace only next to one with text: one block, one line
C8_Witness ==
    /\ pc = "done"
    /\ \E i \in PlainParagraphs(FiguresDone) :
          /\ FlatText(FiguresDone, i) = <<>>
          /\ Descendants(FiguresDone, i) # {}
    /\ \E i \in PlainParagraphs(FiguresDone) : FlatText(FiguresDone, i) # <<>>
    /\ Len(content_blocks) = 1
    /\ BodySection(result) = content_blocks[1].text \o <<"\n", "\n">>

---------------------------------------------------------------------------
(* server.py: the chat endpoint and its session histories *)

HistoryLimit == 20

MaxTurns == 12
MaxUnusual == 2

SessionIds == {"s1", "s2"}
Messages == {"m1", "m2"}

\* what client.models.generate_content does: it answers with a text, answers
\* without one (response.text is None), or raises
Generations == {"text", "none", "error"}

NoResponse == "No response from AI."
Apology ==
    "I'm having trouble connecting to the AI model right now. Please check the server logs."

\* the markup of a request: a page, a page with nested navigation nodes, or
\* markup the tree builder rejects
PlainPage == <<P @@ [id |-> 1, depth |-> 1], Str(<<"x">>) @@ [id |-> 2, depth |-> 2]>>
NestedNavigationPage ==
    <<Navigation @@ [id |-> 1, depth |-> 1], Navigation @@ [id |-> 2, depth |-> 2]>>
Contexts == {PlainPage, NestedNavigationPage, Unparsable}

\* how far a request is from the plain one
Unusual(session_id, context, message, generation) ==
    (IF session_id = "s1" THEN 0 ELSE 1) + (IF context = PlainPage THEN 0 ELSE 1)
    + (IF message = "m1" THEN 0 ELSE 1) + (IF generation = "text" THEN 0 ELSE 1)

\* history[:20] when the list is longer than 20
KeepOldest(history) ==
    IF Len(history) > HistoryLimit THEN SubSeq(history, 1, HistoryLimit) ELSE history

\* lines 152-153
LimitHistory(history) ==
    IF Len(history) > HistoryLimit
    THEN SubSeq(history, Len(history) - HistoryLimit + 1, Len(history))
    ELSE history

\* lines 144-153: the two entries of the turn are appended and the list is cut
SaveHistory(sessions, session_id, message, reply_text) ==
    LET present == IF session_id \in DOMAIN sessions THEN sessions[session_id] ELSE <<>>
        appended == Append(Append(present, <<"Student", message>>), <<"Tutor", reply_text>>)
    IN  [sid \in DOMAIN sessions \cup {session_id} |->
            IF sid = session_id THEN LimitHistory(appended) ELSE sessions[sid]]

\* lines 133-141
ReplyText(generation) ==
    IF generation = "text" THEN "r1"
    ELSE IF generation = "none" THEN NoResponse
    ELSE Apology

\* chat_endpoint with the history saved before the markup is parsed
HandleChat_SaveFirst(sessions, calls, session_id, parsed, message, generation) ==
    IF parsed.raised
    THEN [sessions |-> SaveHistory(sessions, session_id, message, Apology),
          calls |-> calls,
          response |-> [status |-> 500, detail |-> "Failed to parse HTML content."]]
    ELSE [sessions |-> SaveHistory(sessions, session_id, message, ReplyText(generation)),
          calls |-> calls + 1,
          response |-> [status |-> 200, reply |-> ReplyText(generation)]]

\* chat_endpoint without the except branch of lines 139-141: a failure of the
\* generation call reaches the requester and the turn is not recorded
HandleChat_Propagate(sessions, calls, session_id, parsed, message, generation) ==
    IF parsed.raised
    THEN [sessions |-> sessions,
          calls |-> calls,
          response |-> [status |-> 500, detail |-> "Failed to parse HTML content."]]
    ELSE IF generation = "error"
    THEN [sessions |-> sessions,
          calls |-> calls + 1,
          response |-> [status |-> 500, detail |-> "Internal Server Error"]]
    ELSE [sessions |-> SaveHistory(sessions, session_id, message, ReplyText(generation)),
          calls |-> calls + 1,
          response |-> [status |-> 200, reply |-> ReplyText(generation)]]

\* chat_endpoint, lines 71-155: what the call leaves behind and answers
HandleChat(sessions, calls, session_id, parsed, message, generation) ==
    IF parsed.raised
    THEN [sessions |-> sessions,
          calls |-> calls,
          response |-> [status |-> 500, detail |-> "Failed to parse HTML content."]]
    ELSE [sessions |-> SaveHistory(sessions, session_id, message, ReplyText(generation)),
          calls |-> calls + 1,
          response |-> [status |-> 200, reply |-> ReplyText(generation)]]

\* POST /chat.  The handler has no await: it runs to its end before the event
\* loop takes the next request.  The images of a request only add parts to the
\* prompt and leave no state.
ChatEndpoint ==
    /\ turns < MaxTurns
    /\ \E context \in Contexts :
          LET parsed == parse_textbook_content(context, decomposed_use)
          IN  \E session_id \in SessionIds, message \in Messages, generation \in Generations :
                  /\ unusual' = unusual + Unusual(session_id, context, message, generation)
                  /\ unusual' <= MaxUnusual
                  /\ LET after == HandleChat(SESSIONS, backend_calls, session_id, parsed,
                                             message, generation)
                     IN  /\ SESSIONS' = after.sessions
                         /\ backend_calls' = after.calls
                         /\ last_response' = after.response
                  /\ last_request' = [session_id |-> session_id, message |-> message,
                                      context |-> context,
                                      extraction |-> IF parsed.raised THEN "raised" ELSE "done",
                                      generation |-> IF parsed.raised THEN "not called"
                                                     ELSE generation]
    /\ turns' = turns + 1
    /\ UNCHANGED <<parserVars, callVars>>

\* line 70: the limiter refuses a request over 5 per minute before the handler
\* body runs (429 from _rate_limit_exceeded_handler, line 38)
RateLimited ==
    /\ turns < MaxTurns
    /\ unusual < MaxUnusual
    /\ unusual' = unusual + 1
    /\ \E session_id \in SessionIds, context \in Contexts, message \in Messages :
          last_request' = [session_id |-> session_id, message |-> message,
                           context |-> context, extraction |-> "none",
                           generation |-> "not called"]
    /\ last_response' = [status |-> 429, detail |-> "Rate limit exceeded"]
    /\ turns' = turns + 1
    /\ UNCHANGED <<SESSIONS, backend_calls, parserVars, callVars>>

ParserIdle ==
    /\ html_content = <<>>
    /\ pc = "idle"
    /\ soup = <<>>
    /\ location = NoLocation
    /\ figures = <<>>
    /\ content_blocks = <<>>
    /\ result = <<>>

InitServer == ParserIdle /\ ServerIdle /\ Library
\* GET /session/{session_id} and GET /sessions (lines 157-175) only read SESSIONS
NextServer == ChatEndpoint \/ RateLimited
SpecServer == InitServer /\ [][NextServer]_vars

---------------------------------------------------------------------------
(* Session histories and failed extraction *)

\* the stored history of a session id, empty when the id has no entry
HistoryOf(sessions, sid) == IF sid \in DOMAIN sessions THEN sessions[sid] ELSE <<>>

\* the n most recent entries of a list
MostRecent(history, n) ==
    LET kept == IF Len(history) < n THEN Len(history) ELSE n
    IN  [k \in 1..kept |-> history[Len(history) - kept + k]]

\* the step is a chat turn that completed with a reply
CompletedTurn == turns' = turns + 1 /\ last_response'.status = 200

\* the step is a chat turn whose extraction raised
FailedExtraction == turns' = turns + 1 /\ last_request'.extraction = "raised"

\* C9: every completed chat turn leaves the history of its session id equal to
\* the 20 most recent entries of the history before the turn followed by
\* ("Student", message) and ("Tutor", reply), so at most 20 entries long, and
\* leaves the history of every other session id as it was.
C9_History ==
    [][CompletedTurn =>
        LET sid == last_request'.session_id
            grown == HistoryOf(SESSIONS, sid)
                     \o <<<<"Student", last_request'.message>>,
                          <<"Tutor", last_response'.reply>>>>
        IN  /\ DOMAIN SESSIONS' = DOMAIN SESSIONS \cup {sid}
            /\ SESSIONS'[sid] = MostRecent(grown, 20)
            /\ Len(SESSIONS'[sid]) <= 20
            /\ \A other \in SessionIds \ {sid} :
                   HistoryOf(SESSIONS', other) = HistoryOf(SESSIONS, other)]_vars

\* eleven turns completed on one session id, so the two oldest entries are
\* gone, while the other session id keeps its own history
C9_Witness ==
    /\ DOMAIN SESSIONS = SessionIds
    /\ Len(SESSIONS["s2"]) = 2
    /\ backend_calls = 12
    /\ Len(SESSIONS["s1"]) = 20
    /\ last_request.session_id = "s1"
    /\ last_response.status = 200

\* C10: a chat turn whose extraction raises answers with an HTTP error and no
\* reply, does not call the generation backend and leaves SESSIONS as it was.
C10_FailedExtraction ==
    [][FailedExtraction =>
        /\ last_response'.status = 500
        /\ "reply" \notin DOMAIN last_response'
        /\ backend_calls' = backend_calls
        /\ SESSIONS' = SESSIONS]_vars

\* extraction raised for a session id without an entry while another session
\* holds a history
C10_Witness ==
    /\ last_request # <<>>
    /\ last_request.extraction = "raised"
    /\ last_response.status = 500
    /\ last_request.session_id \notin DOMAIN SESSIONS
    /\ DOMAIN SESSIONS # {}
    /\ backend_calls < turns

---------------------------------------------------------------------------
(* C11: a failed generation call *)

\* the step is a chat turn whose generation call raised
FailedGeneration ==
    /\ turns' = turns + 1
    /\ last_request'.extraction = "done"
    /\ last_request'.generation = "error"

\* C11: a chat turn whose generation call fails completes normally: the answer
\* is a reply (status 200) equal to the fixed apology string, and the student
\* message followed by that apology as the Tutor entry is recorded in the
\* session history like any other turn.
C11_FailedGeneration ==
    [][FailedGeneration =>
        LET sid == last_request'.session_id
            grown == HistoryOf(SESSIONS, sid)
                     \o <<<<"Student", last_request'.message>>, <<"Tutor", Apology>>>>
        IN  /\ last_response' = [status |-> 200, reply |-> Apology]
            /\ backend_calls' = backend_calls + 1
            /\ sid \in DOMAIN SESSIONS'
            /\ SESSIONS'[sid] = MostRecent(grown, HistoryLimit)
            /\ \A other \in SessionIds \ {sid} :
                   HistoryOf(SESSIONS', other) = HistoryOf(SESSIONS, other)]_vars

\* the generation call failed on a session that already had a history, and
\* the apology is its newest entry
C11_Witness ==
    /\ last_request # <<>>
    /\ last_request.generation = "error"
    /\ last_response = [status |-> 200, reply |-> Apology]
    /\ last_request.session_id \in DOMAIN SESSIONS
    /\ LET history == SESSIONS[last_request.session_id]
       IN  /\ Len(history) >= 4
           /\ history[Len(history)] = <<"Tutor", Apology>>
           /\ history[Len(history) - 1] = <<"Student", last_request.message>>
           /\ history[1] = <<"Student", "m1">>

---------------------------------------------------------------------------
(* Repeated invocations of parse_textbook_content *)

MaxCalls == 3

\* a page with a captioned figure and a paragraph
FigurePage ==
    <<Figure @@ [id |-> 1, depth |-> 1], Caption @@ [id |-> 2, depth |-> 2],
      Str(<<"c">>) @@ [id |-> 3, depth |-> 3], P @@ [id |-> 4, depth |-> 1],
      Str(<<"x">>) @@ [id |-> 5, depth |-> 2]>>

Pages == {PlainPage, FigurePage, NestedNavigationPage, Unparsable}

\* line 5: a caller invokes the function.  The names soup, figures,
\* content_blocks and output of the new frame are unbound until the body
\* assigns them; the variables still show what the frame before left.
Call ==
    /\ pc = "idle"
    /\ Len(invocations) < MaxCalls
    /\ html_content' \in Pages
    /\ pc' = "input"
    /\ UNCHANGED <<soup, location, figures, content_blocks, result, serverVars,
                   decomposed_use, invocations>>

\* line 136, or an exception leaving the body: the call ends
Return ==
    /\ pc \in {"done", "raised"}
    /\ invocations' =
          Append(invocations,
                 [html_content |-> html_content,
                  returned |-> IF pc = "raised" THEN Raised
                               ELSE [raised |-> FALSE, text |-> result]])
    /\ pc' = "idle"
    /\ UNCHANGED <<html_content, soup, location, figures, content_blocks, result,
                   serverVars, decomposed_use>>

InitCalls == ParserIdle /\ ServerIdle /\ Library
NextCalls == Call \/ NextParser \/ Return
SpecCalls == InitCalls /\ [][NextCalls]_vars

\* C12: any two invocations on identical markup end the same way, with the
\* identical document or both with an exception, whatever their order and
\* whatever invocations ran before or between them.
C12_Pure ==
    \A i \in 1..Len(invocations) : \A j \in 1..Len(invocations) :
        invocations[i].html_content = invocations[j].html_content
            => invocations[i].returned = invocations[j].returned

\* the page with a figure was extracted twice, with another page extracted
\* between the two calls, and both calls returned its document
C12_Witness ==
    /\ Len(invocations) = 3
    /\ invocations[1].html_content = FigurePage
    /\ invocations[2].html_content = PlainPage
    /\ invocations[3].html_content = FigurePage
    /\ ~invocations[3].returned.raised
    /\ Contains(invocations[3].returned.text, <<"c", ":", "\n">>)
    /\ Contains(invocations[2].returned.text, <<"No figures in this section.">>)

---------------------------------------------------------------------------
(* C13: containers and the blocks nested in them *)

\* a div the loop matches with none of its rules
UnclassifiedDivs(t) ==
    {i \in WithTag(t, {"div"}) :
        "equation-block" \notin t[i].cls /\ "expandable-section" \notin t[i].cls}

\* the p and div nodes that are equation blocks or collapsible sidebars
Containers(t) ==
    {a \in WithTag(t, {"p", "div"}) :
        "equation-block" \in t[a].cls \/ "expandable-section" \in t[a].cls}

\* the paragraphs, equation blocks and sidebars that carry text and stand
\* inside an equation block or a collapsible sidebar
NestedBlocks(t) ==
    {i \in WithTag(t, {"p", "div"}) \ UnclassifiedDivs(t) :
        /\ Ancestors(t, i) \cap Containers(t) # {}
        /\ GetText(t, i, <<" ">>, TRUE) # <<>>}

\* the block of node a renders the text of node i: its own block, an equation
\* block or paragraph around it, or a sidebar whose header or content holds it
Renders(t, a, i) ==
    \/ a = i
    \/ /\ i \in Descendants(t, a)
       /\ IF "expandable-section" \in t[a].cls /\ "equation-block" \notin t[a].cls
          THEN LET header == First(Descendants(t, a) \cap WithClass(t, "header-text"))
                   inner_content == First(Descendants(t, a) \cap WithClass(t, "expand-content"))
               IN  \/ header # 0 /\ i \in {header} \cup Descendants(t, header)
                   \/ inner_content # 0
                      /\ i \in {inner_content} \cup Descendants(t, inner_content)
          ELSE TRUE

\* the content blocks the text of node i of the working tree is part of
BlocksRendering(i) ==
    {k \in 1..Len(content_blocks) : Renders(soup, Pos(soup, content_blocks[k].node), i)}

\* C13 as stated: an unclassified div produces no block of its own, and the
\* text of every paragraph, equation block or sidebar nested inside an equation
\* block or a collapsible sidebar is part of exactly one content block of the
\* body: the enclosing block or its own, not both.
C13_AsStated ==
    pc \in {"blocks", "done"} =>
        /\ \A k \in 1..Len(content_blocks) :
              Pos(soup, content_blocks[k].node) \notin UnclassifiedDivs(soup)
        /\ \A i \in NestedBlocks(soup) : Cardinality(BlocksRendering(i)) = 1

=============================================================================
